---- MODULE Spec2Model ----
(***************************************************************************)
(* A model of aile/kernel.py: constrained clustering of the nodes of a     *)
(* page tree (cut_descendants, TreeClustering.fit_predict), the cluster    *)
(* disambiguator (clusters_tournament, make_acyclic, separate_clusters),   *)
(* the item locator (extract_items_with_label, regularize_item_length)     *)
(* and the column aligner's clique partition (find_cliques).               *)
(*                                                                         *)
(* Nodes, cluster ids and matrix indices are 0-based as in the source:     *)
(* arrays are functions over 0..n-1.  Python lists and tuples are          *)
(* sequences.                                                              *)
(***************************************************************************)
EXTENDS Integers, Sequences, FiniteSets, TLC

VARIABLES
    pc,                  \* position in the operation being run
    match,               \* ptree.match
    isTag,               \* isinstance(ptree.page.parsed_body[ptree.index[c]], hp.HtmlTag)
    labels,              \* the caller's labels array
    labels_in,           \* history: the labels array as passed by the caller
    T,                   \* the tournament matrix of clusters_tournament
    pending,             \* make_acyclic: the calls of _make_acyclic, left to right
    pivots,              \* history: the (pivot, L, R) of every _make_acyclic call
    ranking,             \* separate_clusters: ranking
    out_labels,          \* the array an operation returns
    D,                   \* fit_predict: D = d1*X + d2*Y
    eps,                 \* fit_predict: eps
    min_cluster_size,    \* fit_predict: min_cluster_size
    separate_descendants,\* fit_predict: separate_descendants
    dbscan,              \* fit_predict: clt.fit_predict(D)
    cuts,                \* history: per DBSCAN cluster, what cut_descendants returned
    clusters,            \* fit_predict: self.clusters
    label_to_extract,    \* extract_items_with_label: label_to_extract
    items,               \* extract_items_with_label: the returned items
    item_locations,      \* regularize_item_length: item_locations
    max_items_cut_per,   \* regularize_item_length: max_items_cut_per, in hundredths
    min_item_length,     \* regularize_item_length: min_item_length
    new_item_locations,  \* regularize_item_length: the returned list
    G,                   \* find_cliques: the edges of G
    n_items,             \* extract_item_table: len(items); min_size = 0.5*len(items)
    sorted_cliques,      \* find_cliques: cliques after cliques.sort(...)
    found                \* find_cliques: the kept cliques and node_to_clique

vars == <<pc, match, isTag, labels, labels_in, T, pending, pivots, ranking,
          out_labels, D, eps, min_cluster_size, separate_descendants, dbscan,
          cuts, clusters, label_to_extract, items, item_locations,
          max_items_cut_per, min_item_length, new_item_locations, G, n_items,
          sorted_cliques, found>>

----------------------------------------------------------------------------
(* Bounds of the model.                                                    *)

\* nodes of the page tree in SpecSeparate
NSeparate == 3
\* largest cluster id of a labeling in SpecSeparate
MaxLabel == 2
\* nodes of the page tree in SpecCluster
NCluster == 3
\* largest entry of the distance matrix D, and largest DBSCAN eps, in SpecCluster
MaxDist == 1
\* largest min_cluster_size in SpecCluster
MaxMinClusterSize == 2
\* nodes of the page tree in SpecExtract
NExtract == 4
\* largest cluster id of a labeling in SpecExtract
MaxLabelExtract == 1
\* most item roots, over all the items, in SpecRegularize
NRoots == 6
\* largest label of an item root in SpecRegularize
MaxLabelRegularize == 1
\* most nodes of the match graph in SpecCliques
NLeaves == 4
\* largest len(items) in SpecCliques
MaxNItems == 6

\* max_items_cut_per=0.33, in hundredths
DefaultMaxItemsCutPer == 33

\* np.inf, above every distance of the model
Inf == 1000000

----------------------------------------------------------------------------
(* Helpers.                                                                *)

Max(a, b) == IF a >= b THEN a ELSE b

Min(a, b) == IF a <= b THEN a ELSE b

\* len(a) of an array a, a function over 0..n-1
Size(a) == Cardinality(DOMAIN a)

\* np.max(labels); -1 here for an array that holds only -1
NpMax(a) == CHOOSE x \in {a[i] : i \in DOMAIN a} : \A i \in DOMAIN a : a[i] <= x

\* the elements of a set of integers in increasing order (np.flatnonzero, sorted)
RECURSIVE Ascending(_)
Ascending(S) ==
    IF S = {} THEN <<>>
    ELSE LET m == CHOOSE x \in S : \A y \in S : x <= y
         IN  <<m>> \o Ascending(S \ {m})

SeqSet(s) == {s[k] : k \in 1..Len(s)}

\* the pairs A x B, as an enumerated set
Pairs(A, B) == UNION {{<<a, b>> : b \in B} : a \in A}

\* the array f itself, computed once (the comparison makes TLC tabulate it)
Array(f) == IF f = f THEN f ELSE f

----------------------------------------------------------------------------
(* The page tree.  PageTree is not part of kernel.py; its match array is   *)
(* taken from the data model: node i's subtree is [i, match[i]), spans are *)
(* properly nested, and a leaf has match[i] = i+1 or match[i] = i,         *)
(* depending on the convention.                                            *)

\* match arrays of n nodes with match[i] = i+1 at the leaves
NestedSpans(n) ==
    {m \in [0..n-1 -> 1..n] :
        \A i \in 0..n-1 :
            /\ m[i] > i
            /\ \A j \in i+1..m[i]-1 : m[j] <= m[i]}

\* the same tree with match[i] = i at the leaves
LeafSelf(m) == [i \in DOMAIN m |-> IF m[i] = i + 1 THEN i ELSE m[i]]

PageTrees(n) == NestedSpans(n) \cup {LeafSelf(m) : m \in NestedSpans(n)}

\* j lies strictly inside the span of i
Inside(m, i, j) == i < j /\ j < m[i]

\* ptree.children(i): the immediate children of i, in document order
Children(m, i) ==
    Ascending({j \in DOMAIN m :
                 /\ Inside(m, i, j)
                 /\ \A k \in DOMAIN m : Inside(m, i, k) => ~Inside(m, k, j)})

----------------------------------------------------------------------------
(* ClusterEngine: must_separate, cut_descendants and                       *)
(* TreeClustering.fit_predict.                                             *)

\* must_separate(nodes, page_tree): the pairs (src, tgt), both in nodes, with tgt
\* in range(src+1, match[src]); the list is used as a collection only
must_separate(nodes, m) ==
    {p \in Pairs(SeqSet(nodes), SeqSet(nodes)) :
        m[p[1]] >= 0 /\ p[2] \in p[1] + 1..m[p[1]] - 1}

\* one round of the minimax closure: paths may pass through k
Through(E, S, k) ==
    Array([a \in S, b \in S |-> Min(E[a, b], Max(E[a, k], E[k, b]))])

RECURSIVE Minimax(_, _, _)
Minimax(E, S, ks) ==
    IF ks = {} THEN E
    ELSE LET k == CHOOSE x \in ks : TRUE
         IN  Minimax(Through(E, S, k), S, ks \ {k})

\* _ker.min_dist_complete(D), which kernel.py imports: the bottleneck distance,
\* E[a, b] = the least, over the paths from a to b, of the largest edge of the path
min_dist_complete(DD, S) == Minimax(DD, S, S)

\* the nodes reached from the nodes of R along the edges
RECURSIVE Reach(_, _)
Reach(R, edges) ==
    LET more == R \cup {e[2] : e \in {x \in edges : x[1] \in R}}
                  \cup {e[1] : e \in {x \in edges : x[2] \in R}}
    IN  IF more = R THEN R ELSE Reach(more, edges)

\* nx.connected_components(nx.Graph(edges)): the graph holds the end points of its
\* edges; the components come in the order their first node was added
RECURSIVE Components(_, _)
Components(V, edges) ==
    IF V = {} THEN <<>>
    ELSE LET first == CHOOSE x \in V : \A y \in V : x <= y
             comp  == Reach({first}, edges)
         IN  <<comp>> \o Components(V \ comp, edges)

\* D[nodes, :][:, nodes] with D[i, j] = D[j, i] = np.inf for the pairs to separate
Masked(DD, S, separate) ==
    Array([a \in S, b \in S |->
        IF <<a, b>> \in separate \/ <<b, a>> \in separate THEN Inf ELSE DD[a, b]])

\* min(E[i,j] for i, j in separate)
MinOver(E, separate) ==
    CHOOSE v \in {E[p[1], p[2]] : p \in separate} :
        \A p \in separate : v <= E[p[1], p[2]]

\* cut_descendants with the threshold E <= eps
MutCutDescendantsLE(DD, nodes, m) ==
    LET S        == SeqSet(nodes)
        separate == must_separate(nodes, m)
    IN  IF separate /= {}
        THEN LET E     == min_dist_complete(Masked(DD, S, separate), S)
                 eps1  == MinOver(E, separate)
                 edges == {p \in Pairs(S, S) : E[p[1], p[2]] <= eps1}
             IN  [separate |-> separate, eps |-> eps1,
                  components |-> Components({p[1] : p \in edges}, edges)]
        ELSE [separate |-> separate, eps |-> Inf, components |-> <<S>>]

\* cut_descendants(D, nodes, page_tree): the components returned, with the pairs
\* to separate and the threshold eps that gave them
cut_descendants(DD, nodes, m) ==
    LET S        == SeqSet(nodes)
        separate == must_separate(nodes, m)
    IN  IF separate /= {}
        THEN LET E     == min_dist_complete(Masked(DD, S, separate), S)
                 eps1  == MinOver(E, separate)
                 edges == {p \in Pairs(S, S) : E[p[1], p[2]] < eps1}
             IN  [separate |-> separate, eps |-> eps1,
                  components |-> Components({p[1] : p \in edges}, edges)]
        ELSE [separate |-> separate, eps |-> Inf, components |-> <<S>>]

\* sklearn.cluster.DBSCAN(eps, min_samples, metric='precomputed').fit_predict(D):
\* i is a core sample when at least min_samples samples (itself included) lie
\* within eps of it; clusters are numbered in the order of their first core
\* sample; a sample that is not core takes the label of the first cluster with a
\* core sample within eps of it, and -1 when there is none
DBSCAN(DD, n, e, min_samples) ==
    LET near    == Array([i \in 0..n-1 |-> {j \in 0..n-1 : DD[i, j] <= e}])
        core    == {i \in 0..n-1 : Cardinality(near[i]) >= min_samples}
        edges   == {p \in Pairs(core, core) : p[2] \in near[p[1]]}
        comps   == Components(core, edges)
        reached == [k \in 1..Len(comps) |-> UNION {near[i] : i \in comps[k]}]
        first   == Array([k \in 1..Len(comps) |->
                            reached[k] \ UNION {reached[h] : h \in 1..k-1}])
    IN  Array([j \in 0..n-1 |->
            IF \E k \in 1..Len(comps) : j \in first[k]
            THEN (CHOOSE k \in 1..Len(comps) : j \in first[k]) - 1
            ELSE -1])

\* [x for x in components if len(x) >= min_cluster_size]
BigEnough(comps, size) == SelectSeq(comps, LAMBDA x : Cardinality(x) >= size)

\* the loop of fit_predict over labels_to_clusters(clt.fit_predict(D)): what
\* cut_descendants returned for each cluster it was called on
CutsOf(DD, m, cl, size, sep) ==
    Array([c \in {c \in DOMAIN cl : Len(cl[c]) >= size /\ sep} |->
              [nodes |-> SeqSet(cl[c])] @@ cut_descendants(DD, cl[c], m)])

\* self.clusters after the loop of fit_predict
RECURSIVE ClustersFrom(_, _, _, _, _)
ClustersFrom(cl, ct, size, sep, c) ==
    IF c \notin DOMAIN cl THEN <<>>
    ELSE (IF Len(cl[c]) >= size
          THEN IF sep THEN BigEnough(ct[c].components, size)
               ELSE <<SeqSet(cl[c])>>
          ELSE <<>>)
         \o ClustersFrom(cl, ct, size, sep, c + 1)

\* clusters_to_labels(clusters, n_samples): a later cluster overwrites
clusters_to_labels(cls, n) ==
    Array([j \in 0..n-1 |->
        IF \E i \in 1..Len(cls) : j \in cls[i]
        THEN (CHOOSE i \in 1..Len(cls) :
                 /\ j \in cls[i]
                 /\ \A h \in i+1..Len(cls) : j \notin cls[h]) - 1
        ELSE -1])

----------------------------------------------------------------------------
(* ClusterDisambiguator: clusters_tournament, make_acyclic,                *)
(* separate_clusters.                                                      *)

\* labels_to_clusters(labels): for each label 0..max the nodes carrying it
labels_to_clusters(lab) ==
    Array([label \in 0..NpMax(lab) |->
              Ascending({i \in DOMAIN lab : lab[i] = label})])

\* clusters_tournament(ptree, labels): T[li, lj] is incremented once for every
\* i with labels[i] = li /= -1 and every j in range(max(i + 1, m)) with
\* labels[j] = lj /= -1
clusters_tournament(m, lab) ==
    LET L == NpMax(lab) + 1
    IN  [li \in 0..L-1, lj \in 0..L-1 |->
            Cardinality({p \in Pairs(DOMAIN lab, DOMAIN lab) :
                            /\ lab[p[1]] = li
                            /\ p[2] \in 0..Max(p[1] + 1, m[p[1]]) - 1
                            /\ lab[p[2]] = lj})]

\* make_acyclic(T): the first call, _make_acyclic(T, np.arange(T.shape[0]))
make_acyclic(L) == <<[call |-> TRUE, ids |-> [k \in 1..L |-> k - 1]]>>

\* the loop of _make_acyclic for the pivot labels[i]: the sub-matrix T of the call
\* holds T[labels[a], labels[b]] of the full tournament, which is read here
MutPartitionGE(TT, ids, i) ==
    [R |-> SelectSeq(ids, LAMBDA x : x /= ids[i] /\ TT[ids[i], x] >= TT[x, ids[i]]),
     L |-> SelectSeq(ids, LAMBDA x : x /= ids[i] /\ ~(TT[ids[i], x] >= TT[x, ids[i]]))]

Partition(TT, ids, i) ==
    [R |-> SelectSeq(ids, LAMBDA x : x /= ids[i] /\ TT[ids[i], x] > TT[x, ids[i]]),
     L |-> SelectSeq(ids, LAMBDA x : x /= ids[i] /\ ~(TT[ids[i], x] > TT[x, ids[i]]))]

\* the slice taken one node too late: labels[node+2:...] = -1
MutClearSpanLate(m, lab, node) ==
    [j \in DOMAIN lab |->
        IF node + 2 <= j /\ j < Max(node + 1, m[node]) THEN -1 ELSE lab[j]]

\* labels[node+1:max(node+1, ptree.match[node])] = -1
ClearSpan(m, lab, node) ==
    [j \in DOMAIN lab |->
        IF node + 1 <= j /\ j < Max(node + 1, m[node]) THEN -1 ELSE lab[j]]

\* for node in clusters[i]: ...
RECURSIVE ClearCluster(_, _, _)
ClearCluster(m, lab, nodes) ==
    IF nodes = <<>> THEN lab
    ELSE ClearCluster(m, ClearSpan(m, lab, Head(nodes)), Tail(nodes))

\* for i in ranking: for node in clusters[i]: ...
RECURSIVE ClearRanking(_, _, _, _)
ClearRanking(m, cl, lab, rk) ==
    IF rk = <<>> THEN lab
    ELSE ClearRanking(m, cl, ClearCluster(m, lab, cl[Head(rk)]), Tail(rk))

\* separate_clusters without labels = labels.copy(): the caller's array is written
MutSeparateNoCopy(m, lab, rk) ==
    LET res == ClearRanking(m, labels_to_clusters(lab), lab, rk)
    IN  [caller |-> res, ret |-> res]

\* separate_clusters that leaves out the first cluster of the ranking
MutSeparateSkipFirst(m, lab, rk) ==
    [caller |-> lab,
     ret    |-> ClearRanking(m, labels_to_clusters(lab), lab,
                             IF rk = <<>> THEN rk ELSE Tail(rk))]

\* separate_clusters(ptree, labels) once the ranking is made: the caller's array
\* and the returned copy
separate_clusters(m, lab, rk) ==
    [caller |-> lab,
     ret    |-> ClearRanking(m, labels_to_clusters(lab), lab, rk)]

----------------------------------------------------------------------------
(* ItemLocator: extract_items_with_label and regularize_item_length.       *)

\* some_root_has_label(labels, item, label)
some_root_has_label(lab, item, label) ==
    \E k \in 1..Len(item) : lab[item[k]] = label

\* the walk that closes the item on a label other than the first one
RECURSIVE MutWalkOther(_, _, _, _, _, _)
MutWalkOther(children, lab, tag, first, item, acc) ==
    IF children = <<>>
    THEN IF item /= <<>> THEN Append(acc, item) ELSE acc
    ELSE LET c == Head(children)
             m == lab[c]
         IN  IF m /= -1
             THEN LET close == first /= -1 /\ m /= first /\ item /= <<>>
                      item1 == IF close THEN <<>> ELSE item
                      acc1  == IF close THEN Append(acc, item) ELSE acc
                  IN  MutWalkOther(Tail(children), lab, tag,
                           IF first = -1 THEN m ELSE first,
                           IF tag[c] THEN Append(item1, c) ELSE item1, acc1)
             ELSE MutWalkOther(Tail(children), lab, tag, first, item, acc)

\* `for c in children:` of extract_items_with_label and the `if item:` after it;
\* first = -1 stands for None (m is never -1 where first is set), acc is items
RECURSIVE Walk(_, _, _, _, _, _)
Walk(children, lab, tag, first, item, acc) ==
    IF children = <<>>
    THEN IF item /= <<>> THEN Append(acc, item) ELSE acc
    ELSE LET c == Head(children)
             m == lab[c]
         IN  IF m /= -1
             THEN LET close == first /= -1 /\ m = first /\ item /= <<>>
                      item1 == IF close THEN <<>> ELSE item
                      acc1  == IF close THEN Append(acc, item) ELSE acc
                  IN  Walk(Tail(children), lab, tag,
                           IF first = -1 THEN m ELSE first,
                           IF tag[c] THEN Append(item1, c) ELSE item1, acc1)
             ELSE Walk(Tail(children), lab, tag, first, item, acc)

\* `while i < len(labels):` of extract_items_with_label
RECURSIVE Scan(_, _, _, _, _, _)
Scan(m, lab, tag, label, i, acc) ==
    IF i >= Size(lab) THEN acc
    ELSE LET children == Children(m, i)
         IN  IF \E k \in 1..Len(children) : lab[children[k]] = label
             THEN Scan(m, lab, tag, label, m[i],
                       Walk(children, lab, tag, -1, <<>>, acc))
             ELSE Scan(m, lab, tag, label, i + 1, acc)

\* extract_items_with_label(ptree, labels, label_to_extract)
extract_items_with_label(m, lab, tag, label) ==
    SelectSeq(Scan(m, lab, tag, label, 0, <<>>),
              LAMBDA item : some_root_has_label(lab, item, label))

\* how many items have length n
CountLen(locs, n) == Cardinality({k \in 1..Len(locs) : Len(locs[k]) = n})

\* vote(sequence) on the item lengths: a most frequent length.  max() over the
\* Counter returns the first most frequent key in dictionary order, which the
\* language does not fix: every most frequent length is a possible result.
vote(locs) ==
    {n \in {Len(locs[k]) : k \in 1..Len(locs)} :
        \A k \in 1..Len(locs) : CountLen(locs, Len(locs[k])) <= CountLen(locs, n)}

\* collections.Counter(labels[root] for item_location in item_locations
\*                     for root in item_location)[label]
label_count(lab, locs, label) ==
    Cardinality({p \in Pairs(1..Len(locs), 1..NRoots) :
                    p[2] <= Len(locs[p[1]]) /\ lab[locs[p[1]][p[2]]] = label})

\* (count, root) tuples compare like Python tuples
TupleLess(x, y) == x[1] < y[1] \/ (x[1] = y[1] /\ x[2] < y[2])

\* sorted(scored, reverse=True)
RECURSIVE SortedReverse(_)
SortedReverse(scored) ==
    IF scored = <<>> THEN <<>>
    ELSE LET k == CHOOSE k \in 1..Len(scored) :
                     \A h \in 1..Len(scored) : ~TupleLess(scored[k], scored[h])
         IN  <<scored[k]>>
             \o SortedReverse(SubSeq(scored, 1, k - 1)
                              \o SubSeq(scored, k + 1, Len(scored)))

\* the new_item_location of one item_location
CutItem(lab, locs, item, m) ==
    IF Len(item) > m
    THEN LET scored == SortedReverse(
                          [k \in 1..Len(item) |->
                              <<label_count(lab, locs, lab[item[k]]), item[k]>>])
             keep   == {scored[k][2] : k \in 1..m}
         IN  SelectSeq(item, LAMBDA root : root \in keep)
    ELSE item

\* regularize_item_length that does not drop the items shorter than the vote
MutRegularizeKeepShort(lab, locs, per, m) ==
    IF locs = <<>> THEN locs
    ELSE LET cut_items == Cardinality({k \in 1..Len(locs) : Len(locs[k]) > m})
         IN  IF 100 * cut_items > per * Len(locs) THEN <<>>
             ELSE IF cut_items > 0
                  THEN [k \in 1..Len(locs) |-> CutItem(lab, locs, locs[k], m)]
                  ELSE locs

\* regularize_item_length(ptree, labels, item_locations, max_items_cut_per) with
\* min_item_length = m; per is max_items_cut_per in hundredths
regularize_item_length(lab, locs, per, m) ==
    IF locs = <<>> THEN locs
    ELSE LET cut_items == Cardinality({k \in 1..Len(locs) : Len(locs[k]) > m})
             kept      == SelectSeq(locs, LAMBDA x : Len(x) >= m)
         IN  IF 100 * cut_items > per * Len(locs) THEN <<>>
             ELSE IF cut_items > 0
                  THEN [k \in 1..Len(kept) |-> CutItem(lab, kept, kept[k], m)]
                  ELSE kept

----------------------------------------------------------------------------
(* ColumnAligner: find_cliques.                                            *)

\* the nodes of G: nx.Graph holds the end points of the edges added to it
Nodes(edges) == UNION edges

IsClique(edges, K) == \A a, b \in K : a /= b => {a, b} \in edges

\* nx.find_cliques(G): the maximal cliques of G
MaximalCliques(edges) ==
    {K \in SUBSET Nodes(edges) :
        /\ K /= {}
        /\ IsClique(edges, K)
        /\ \A v \in Nodes(edges) \ K : ~IsClique(edges, K \cup {v})}

\* len(K) >= min_size with min_size = 0.5*n
AtLeastHalf(K, n) == 2 * Cardinality(K) >= n

\* the orders that put the smallest clique first
RECURSIVE MutSortAscending(_)
MutSortAscending(S) ==
    IF S = {} THEN {<<>>}
    ELSE UNION {{<<K>> \o r : r \in MutSortAscending(S \ {K})} :
                  K \in {K \in S : \A J \in S : Cardinality(K) <= Cardinality(J)}}

\* cliques.sort(reverse=True, key=lambda x: len(x)): the largest clique first;
\* cliques of one size stay in the order nx.find_cliques gave them, which is any
RECURSIVE SortReverse(_)
SortReverse(S) ==
    IF S = {} THEN {<<>>}
    ELSE UNION {{<<K>> \o r : r \in SortReverse(S \ {K})} :
                  K \in {K \in S : \A J \in S : Cardinality(K) >= Cardinality(J)}}

\* L = set(); for K in cliques: K -= L; L |= K
RECURSIVE Reduce(_, _)
Reduce(cliques, L) ==
    IF cliques = <<>> THEN <<>>
    ELSE <<Head(cliques) \ L>> \o Reduce(Tail(cliques), L \cup Head(cliques))

\* find_cliques(G, min_size) from the sorted list on: the cliques kept by the
\* second filter, the clique of G each one comes from, and node_to_clique
find_cliques(cliques, n) ==
    LET reduced == Reduce(cliques, {})
        idx     == SelectSeq([k \in 1..Len(cliques) |-> k],
                             LAMBDA k : AtLeastHalf(reduced[k], n))
        kept    == [c \in 1..Len(idx) |-> reduced[idx[c]]]
        covered == UNION {kept[c] : c \in 1..Len(idx)}
    IN  [kept   |-> kept,
         origin |-> [c \in 1..Len(idx) |-> cliques[idx[c]]],
         node_to_clique |->
             Array([node \in covered |->
                      (CHOOSE c \in 1..Len(idx) :
                          /\ node \in kept[c]
                          /\ \A h \in 1..c-1 : node \notin kept[h]) - 1])]

----------------------------------------------------------------------------
(* Values of the variables an operation does not use.                      *)

NoTree == match = <<>> /\ isTag = <<>>

NoLabels == labels = <<>> /\ labels_in = <<>> /\ out_labels = <<>>

NoRanking == T = <<>> /\ pending = <<>> /\ pivots = {} /\ ranking = <<>>

NoClustering ==
    /\ D = <<>> /\ eps = 0 /\ min_cluster_size = 0
    /\ separate_descendants = FALSE
    /\ dbscan = <<>> /\ cuts = <<>> /\ clusters = <<>>

NoItems == label_to_extract = -1 /\ items = <<>>

NoRegularize ==
    /\ item_locations = <<>> /\ max_items_cut_per = 0
    /\ min_item_length = 0 /\ new_item_locations = <<>>

NoCliques == G = {} /\ n_items = 0 /\ sorted_cliques = <<>> /\ found = <<>>

treeVars == <<match, isTag>>

rankingVars == <<T, pending, pivots, ranking>>

clusteringVars ==
    <<D, eps, min_cluster_size, separate_descendants, dbscan, cuts, clusters>>

itemVars == <<label_to_extract, items>>

regularizeVars ==
    <<item_locations, max_items_cut_per, min_item_length, new_item_locations>>

cliqueVars == <<G, n_items, sorted_cliques, found>>

----------------------------------------------------------------------------
(* SpecSeparate: separate_clusters(ptree, labels) on every tree of         *)
(* NSeparate nodes and every labeling with cluster ids up to MaxLabel.     *)

InitSeparate ==
    /\ pc = "separate_clusters"
    /\ match \in PageTrees(NSeparate)
    /\ isTag = <<>>
    /\ labels \in [0..NSeparate-1 -> -1..MaxLabel]
    /\ labels_in = labels
    /\ out_labels = <<>>
    /\ NoRanking /\ NoClustering /\ NoItems /\ NoRegularize /\ NoCliques

\* ranking = make_acyclic(clusters_tournament(ptree, labels)): the tournament and
\* the first call of _make_acyclic
ClustersTournament ==
    /\ pc = "separate_clusters"
    /\ T' = clusters_tournament(match, labels)
    /\ pending' = make_acyclic(NpMax(labels) + 1)
    /\ pc' = "make_acyclic"
    /\ UNCHANGED <<treeVars, labels, labels_in, out_labels, pivots, ranking,
                   clusteringVars, itemVars, regularizeVars, cliqueVars>>

\* one call of _make_acyclic, the leftmost one not yet run: it returns [] when
\* n == 0, and otherwise draws the pivot i = np.random.randint(0, n) and leaves
\* make_acyclic(L) + [labels[i]] + make_acyclic(R)
MakeAcyclic ==
    /\ pc = "make_acyclic"
    /\ \E k \in 1..Len(pending) :
        /\ pending[k].call
        /\ \A j \in 1..k-1 : ~pending[j].call
        /\ LET ids    == pending[k].ids
               before == SubSeq(pending, 1, k - 1)
               after  == SubSeq(pending, k + 1, Len(pending))
           IN  IF ids = <<>>
               THEN /\ pending' = before \o after
                    /\ pivots' = pivots
               ELSE \E i \in 1..Len(ids) :
                      LET part == Partition(T, ids, i)
                      IN  /\ pending' = before
                                 \o <<[call |-> TRUE, ids |-> part.L],
                                      [call |-> FALSE, ids |-> <<ids[i]>>],
                                      [call |-> TRUE, ids |-> part.R]>>
                                 \o after
                          /\ pivots' = pivots \cup
                                 {[p |-> ids[i], sub |-> ids,
                                   L |-> part.L, R |-> part.R]}
    /\ UNCHANGED <<pc, treeVars, labels, labels_in, out_labels, T, ranking,
                   clusteringVars, itemVars, regularizeVars, cliqueVars>>

\* the rest of separate_clusters, once make_acyclic has returned the ranking
SeparateClusters ==
    /\ pc = "make_acyclic"
    /\ \A k \in 1..Len(pending) : ~pending[k].call
    /\ LET rk  == [k \in 1..Len(pending) |-> pending[k].ids[1]]
           res == separate_clusters(match, labels, rk)
       IN  /\ ranking' = rk
           /\ labels' = res.caller
           /\ out_labels' = res.ret
    /\ pc' = "done"
    /\ UNCHANGED <<treeVars, labels_in, T, pending, pivots,
                   clusteringVars, itemVars, regularizeVars, cliqueVars>>

NextSeparate == ClustersTournament \/ MakeAcyclic \/ SeparateClusters

SpecSeparate == InitSeparate /\ [][NextSeparate]_vars

\* where x stands in the ranking rk
Pos(rk, x) == CHOOSE k \in 1..Len(rk) : rk[k] = x

\* C3: separate_clusters refines the labeling monotonically: every output label
\* is the node's input label or -1 (no node gains a label, none changes cluster
\* id), and the caller's input array is left as it was passed.
C3_Monotone ==
    pc = "done" =>
        /\ labels = labels_in
        /\ \A i \in DOMAIN labels_in : out_labels[i] \in {labels_in[i], -1}

\* a run that removed a label and kept another, with two clusters or more ranked
C3_Witness ==
    /\ pc = "done"
    /\ Len(ranking) >= 2
    /\ \E i \in DOMAIN labels_in : labels_in[i] /= -1 /\ out_labels[i] = -1
    /\ \E j \in DOMAIN labels_in : out_labels[j] /= -1

\* C5: after separate_clusters no node that still carries a label lies strictly
\* inside the span (i, match[i]) of another node that still carries a label.
C5_Exclusive ==
    pc = "done" =>
        \A i, j \in DOMAIN out_labels :
            out_labels[i] /= -1 /\ out_labels[j] /= -1 => ~Inside(match, i, j)

\* a labeled node nested in a labeled node of another cluster, the outer one kept
C5_Witness ==
    /\ pc = "done"
    /\ \E i, j \in DOMAIN labels_in :
        /\ Inside(match, i, j)
        /\ labels_in[i] /= -1 /\ labels_in[j] /= -1
        /\ labels_in[i] /= labels_in[j]
        /\ out_labels[i] /= -1

\* the tournament as the claim counts it: j in [i+1, max(i+1, match[i]))
TournamentAfter(m, lab) ==
    LET L == NpMax(lab) + 1
    IN  [li \in 0..L-1, lj \in 0..L-1 |->
            Cardinality({p \in Pairs(DOMAIN lab, DOMAIN lab) :
                            /\ lab[p[1]] = li
                            /\ p[2] \in p[1] + 1..Max(p[1] + 1, m[p[1]]) - 1
                            /\ lab[p[2]] = lj})]

\* C6: clusters_tournament returns T with T[a, b] the number of pairs (i, j),
\* label[i] = a, label[j] = b, both not -1, j in [i+1, max(i+1, match[i])); a
\* node j at or before i is never counted.
C6_Tournament ==
    pc /= "separate_clusters" => T = TournamentAfter(match, labels_in)

\* C7 as stated: x is in L exactly when T[p,x] >= T[x,p] and in R exactly when
\* T[x,p] > T[p,x].
C7_Original ==
    \A r \in pivots :
        \A x \in SeqSet(r.sub) \ {r.p} :
            /\ x \in SeqSet(r.L) <=> T[r.p, x] >= T[x, r.p]
            /\ x \in SeqSet(r.R) <=> T[x, r.p] > T[r.p, x]

\* C7, amended: for every pivot p of every call of _make_acyclic and every other
\* cluster x of that call, x is in R (after p) exactly when T[p,x] > T[x,p] and in
\* L (before p) exactly when T[p,x] <= T[x,p]; the ranking returned holds L, then
\* p, then R.
C7_Partition ==
    /\ \A r \in pivots :
        \A x \in SeqSet(r.sub) \ {r.p} :
            /\ x \in SeqSet(r.R) <=> T[r.p, x] > T[x, r.p]
            /\ x \in SeqSet(r.L) <=> T[r.p, x] <= T[x, r.p]
    /\ pc = "done" =>
        /\ SeqSet(ranking) = 0..NpMax(labels_in)
        /\ Len(ranking) = NpMax(labels_in) + 1
        /\ \A r \in pivots :
            /\ \A x \in SeqSet(r.L) : Pos(ranking, x) < Pos(ranking, r.p)
            /\ \A x \in SeqSet(r.R) : Pos(ranking, r.p) < Pos(ranking, x)

\* a finished ranking in which some pivot had a cluster on each side
C7_Witness ==
    /\ pc = "done"
    /\ \E r \in pivots : r.L /= <<>> /\ r.R /= <<>>

\* the input labeling with -1 at every node strictly inside the span of a node
\* that the input labels
ClearedInsideLabeled(m, lab) ==
    [j \in DOMAIN lab |->
        IF \E i \in DOMAIN lab : lab[i] /= -1 /\ Inside(m, i, j)
        THEN -1 ELSE lab[j]]

\* C10: the labeling separate_clusters returns does not depend on the pivots
\* drawn in make_acyclic: under every ranking it is the input labeling with -1 at
\* every node strictly inside the span of a node labeled in the input.
C10_RankingIndependent ==
    pc = "done" => out_labels = ClearedInsideLabeled(match, labels_in)

\* a ranking that is not the order of the cluster ids, with a label removed
C10_Witness ==
    /\ pc = "done"
    /\ Len(ranking) >= 3
    /\ ranking[1] > ranking[2]
    /\ \E r \in pivots : Len(r.sub) = 3 /\ r.L /= <<>> /\ r.R /= <<>>
    /\ out_labels /= labels_in

----------------------------------------------------------------------------
(* SpecCluster: TreeClustering(page_tree).fit_predict on every tree of     *)
(* NCluster nodes and every symmetric distance matrix D with a zero        *)
(* diagonal and entries up to MaxDist (D = d1*X + d2*Y is any such matrix  *)
(* when the caller passes it as X with d1 = 1, d2 = 0).  The trees are     *)
(* taken with                                                              *)
(* match[i] = i+1 at the leaves: must_separate reads match[src] only as    *)
(* the end of range(src+1, match[src]), which is empty at a leaf under     *)
(* either convention.                                                      *)

\* the symmetric matrices with a zero diagonal
Distances(n, d) ==
    {[i \in 0..n-1, j \in 0..n-1 |->
         IF i = j THEN 0 ELSE u[<<Min(i, j), Max(i, j)>>]] :
       u \in [{p \in (0..n-1) \X (0..n-1) : p[1] < p[2]} -> 0..d]}

InitCluster ==
    /\ pc = "fit_predict"
    /\ match \in NestedSpans(NCluster)
    /\ isTag = <<>>
    /\ D \in Distances(NCluster, MaxDist)
    /\ eps \in 0..MaxDist
    /\ min_cluster_size \in 1..MaxMinClusterSize
    /\ separate_descendants \in BOOLEAN
    /\ dbscan = <<>> /\ cuts = <<>> /\ clusters = <<>>
    /\ NoLabels /\ NoRanking /\ NoItems /\ NoRegularize /\ NoCliques

\* fit_predict(X, min_cluster_size, d1, d2, eps, separate_descendants), from the
\* distance matrix D on
FitPredict ==
    /\ pc = "fit_predict"
    /\ LET lab == DBSCAN(D, NCluster, eps, min_cluster_size)
           cl  == labels_to_clusters(lab)
           ct  == CutsOf(D, match, cl, min_cluster_size, separate_descendants)
           cls == ClustersFrom(cl, ct, min_cluster_size, separate_descendants, 0)
       IN  /\ dbscan' = lab
           /\ cuts' = ct
           /\ clusters' = cls
           /\ out_labels' = clusters_to_labels(cls, NCluster)
    /\ pc' = "done"
    /\ UNCHANGED <<treeVars, labels, labels_in, rankingVars, D, eps,
                   min_cluster_size, separate_descendants,
                   itemVars, regularizeVars, cliqueVars>>

NextCluster == FitPredict

SpecCluster == InitCluster /\ [][NextCluster]_vars

\* C1: with separate_descendants, fit_predict never gives the same label other
\* than -1 to a node i and a node j with i < j < match[i]: in every cluster that
\* holds pairs to separate, cut_descendants puts the two nodes of every pair in
\* different components.
C1_Separated ==
    pc = "done" /\ separate_descendants =>
        /\ \A i, j \in DOMAIN out_labels :
              Inside(match, i, j) /\ out_labels[i] /= -1
                  => out_labels[i] /= out_labels[j]
        /\ \A c \in DOMAIN cuts :
              \A p \in cuts[c].separate :
                  \A k \in 1..Len(cuts[c].components) :
                      ~(p[1] \in cuts[c].components[k]
                          /\ p[2] \in cuts[c].components[k])

\* a cluster with a pair to separate, cut in two components or more, and a node
\* and its descendant both labeled in what fit_predict returns
C1_Witness ==
    /\ pc = "done" /\ separate_descendants
    /\ \E c \in DOMAIN cuts :
          cuts[c].separate /= {} /\ Len(cuts[c].components) >= 2
    /\ \E i, j \in DOMAIN out_labels :
          /\ Inside(match, i, j)
          /\ out_labels[i] /= -1 /\ out_labels[j] /= -1

\* C2: when a cluster has pairs to separate and the threshold eps' is not usable
\* (eps' = 0: no pair of members has E < eps'), cut_descendants returns the whole
\* cluster as a single component, and the cluster's nodes are not lost.
C2_Fallback ==
    pc = "done" =>
        \A c \in DOMAIN cuts :
            cuts[c].separate /= {} /\ cuts[c].eps = 0
                => cuts[c].components = <<cuts[c].nodes>>

----------------------------------------------------------------------------
(* SpecExtract: extract_items_with_label on every tree of NExtract nodes,  *)
(* every labeling with cluster ids up to MaxLabelExtract and every label   *)
(* to extract.  A node that has children is a tag; a node that is not a    *)
(* tag (text) is a leaf.  The trees are taken with match[i] = i+1 at the   *)
(* leaves: the function reads match[i] only for a node i with children.    *)

InitExtract ==
    /\ pc = "extract_items_with_label"
    /\ match \in NestedSpans(NExtract)
    /\ isTag \in {t \in [0..NExtract-1 -> BOOLEAN] :
                    \A i \in 0..NExtract-1 : match[i] > i + 1 => t[i]}
    /\ labels \in [0..NExtract-1 -> -1..MaxLabelExtract]
    /\ labels_in = labels
    /\ out_labels = <<>>
    /\ label_to_extract \in 0..MaxLabelExtract
    /\ items = <<>>
    /\ NoRanking /\ NoClustering /\ NoRegularize /\ NoCliques

ExtractItemsWithLabel ==
    /\ pc = "extract_items_with_label"
    /\ items' = extract_items_with_label(match, labels, isTag, label_to_extract)
    /\ pc' = "done"
    /\ UNCHANGED <<treeVars, labels, labels_in, out_labels, rankingVars,
                   clusteringVars, label_to_extract, regularizeVars, cliqueVars>>

NextExtract == ExtractItemsWithLabel

SpecExtract == InitExtract /\ [][NextExtract]_vars

\* the parent of node c: the innermost node whose span holds c
Parent(m, c) ==
    CHOOSE i \in DOMAIN m :
        Inside(m, i, c) /\ \A k \in DOMAIN m : Inside(m, k, c) => k <= i

\* the first label other than -1 among the children of node i
FirstLabel(m, lab, i) ==
    LET labeled == SelectSeq(Children(m, i), LAMBDA c : lab[c] /= -1)
    IN  lab[labeled[1]]

\* C8 as stated: no returned item holds two roots carrying the same label.
C8_Original ==
    pc = "done" =>
        \A n \in 1..Len(items) :
            \A a, b \in 1..Len(items[n]) :
                a /= b => labels[items[n][a]] /= labels[items[n][b]]

\* C8, amended: the roots of a returned item are labeled tag children of one
\* parent, in document order, and a new item is started whenever the first
\* label other than -1 seen among that parent's children occurs again: no
\* returned item holds two roots carrying that first label (another label may
\* occur twice in an item).
C8_FirstLabelSplits ==
    pc = "done" =>
        \A n \in 1..Len(items) :
            LET item   == items[n]
                parent == Parent(match, item[1])
                first  == FirstLabel(match, labels, parent)
            IN  /\ item /= <<>>
                /\ \A a \in 1..Len(item) :
                      /\ item[a] \in SeqSet(Children(match, parent))
                      /\ labels[item[a]] /= -1
                      /\ isTag[item[a]]
                /\ \A a, b \in 1..Len(item) : a < b => item[a] < item[b]
                /\ \A a, b \in 1..Len(item) :
                      a /= b => ~(labels[item[a]] = first /\ labels[item[b]] = first)
                /\ \A a \in 2..Len(item) : labels[item[a]] /= first

\* two items of one parent, the second one opened by the first label
C8_Witness ==
    /\ pc = "done"
    /\ \E n \in 1..Len(items) - 1 :
          /\ Parent(match, items[n][1]) = Parent(match, items[n + 1][1])
          /\ labels[items[n + 1][1]]
                = FirstLabel(match, labels, Parent(match, items[n][1]))
          /\ Len(items[n]) >= 2

----------------------------------------------------------------------------
(* SpecRegularize: regularize_item_length on the lists of items that       *)
(* extract_items_with_label returns (C8_FirstLabelSplits: the roots of an  *)
(* item are distinct, in document order and labeled).  The function reads  *)
(* the roots only to compare them and to look up their label, so the       *)
(* roots of the items are taken as 0, 1, 2, ... in list order.             *)

\* the ways to cut the sequence of roots k, k+1, ..., n-1 into items
RECURSIVE ItemLists(_, _)
ItemLists(k, n) ==
    IF k = n THEN {<<>>}
    ELSE UNION {{<<[r \in 1..e - k |-> k + r - 1]>> \o rest :
                    rest \in ItemLists(e, n)} : e \in k+1..n}

InitRegularize ==
    /\ pc = "regularize_item_length"
    /\ \E n \in 0..NRoots :
          /\ item_locations \in ItemLists(0, n)
          /\ labels \in [0..n-1 -> 0..MaxLabelRegularize]
    /\ labels_in = labels
    /\ out_labels = <<>>
    /\ max_items_cut_per \in {DefaultMaxItemsCutPer, 50}
    /\ min_item_length = 0
    /\ new_item_locations = <<>>
    /\ NoTree /\ NoRanking /\ NoClustering /\ NoItems /\ NoCliques

RegularizeItemLength ==
    /\ pc = "regularize_item_length"
    /\ \/ /\ item_locations = <<>>
          /\ min_item_length' = min_item_length
          /\ new_item_locations' =
                regularize_item_length(labels, item_locations,
                                       max_items_cut_per, 0)
       \/ \E m \in vote(item_locations) :
             /\ min_item_length' = m
             /\ new_item_locations' =
                   regularize_item_length(labels, item_locations,
                                          max_items_cut_per, m)
    /\ pc' = "done"
    /\ UNCHANGED <<treeVars, labels, labels_in, out_labels, rankingVars,
                   clusteringVars, itemVars, item_locations, max_items_cut_per,
                   cliqueVars>>

NextRegularize == RegularizeItemLength

SpecRegularize == InitRegularize /\ [][NextRegularize]_vars

\* C4: whenever regularize_item_length returns a list that is not empty, all its
\* items have the same number of roots, the most common item length m of the
\* input: the items shorter than m are dropped, the items longer than m are cut
\* to exactly m of their roots.
C4_EqualLength ==
    pc = "done" /\ new_item_locations /= <<>> =>
        LET m      == min_item_length
            longer == SelectSeq(item_locations, LAMBDA x : Len(x) >= m)
        IN  /\ \A k \in 1..Len(item_locations) :
                  CountLen(item_locations, Len(item_locations[k]))
                      <= CountLen(item_locations, m)
            /\ CountLen(item_locations, m) >= 1
            /\ Len(new_item_locations) = Len(longer)
            /\ \A k \in 1..Len(new_item_locations) :
                  /\ Len(new_item_locations[k]) = m
                  /\ SeqSet(new_item_locations[k]) \subseteq SeqSet(longer[k])

\* a list returned with an item dropped for being short and an item cut
C4_Witness ==
    /\ pc = "done"
    /\ new_item_locations /= <<>>
    /\ \E k \in 1..Len(item_locations) : Len(item_locations[k]) > min_item_length
    /\ \E k \in 1..Len(item_locations) : Len(item_locations[k]) < min_item_length

----------------------------------------------------------------------------
(* SpecCliques: find_cliques(G, 0.5*len(items)) on every graph G over      *)
(* NLeaves leaves and every len(items) up to MaxNItems.                    *)

InitCliques ==
    /\ pc = "find_cliques"
    /\ G \in SUBSET {e \in SUBSET (0..NLeaves-1) : Cardinality(e) = 2}
    /\ n_items \in 1..MaxNItems
    /\ sorted_cliques = <<>>
    /\ found = <<>>
    /\ NoTree /\ NoLabels /\ NoRanking /\ NoClustering /\ NoItems /\ NoRegularize

FindCliques ==
    /\ pc = "find_cliques"
    /\ \E cliques \in SortReverse({K \in MaximalCliques(G) : AtLeastHalf(K, n_items)}) :
          /\ sorted_cliques' = cliques
          /\ found' = find_cliques(cliques, n_items)
    /\ pc' = "done"
    /\ UNCHANGED <<treeVars, labels, labels_in, out_labels, rankingVars,
                   clusteringVars, itemVars, regularizeVars, G, n_items>>

NextCliques == FindCliques

SpecCliques == InitCliques /\ [][NextCliques]_vars

\* the maximal cliques of at least min_size leaves that hold leaf v
Qualifying(v) ==
    {K \in MaximalCliques(G) : v \in K /\ AtLeastHalf(K, n_items)}

\* C9 as stated: every leaf of a maximal clique of at least min_size leaves
\* receives a column id, the id of a largest such clique that holds the leaf.
C9_Original ==
    pc = "done" =>
        \A v \in Nodes(G) :
            Qualifying(v) /= {} =>
                /\ v \in DOMAIN found.node_to_clique
                /\ found.origin[found.node_to_clique[v] + 1] \in Qualifying(v)
                /\ \A K \in Qualifying(v) :
                      Cardinality(K)
                          <= Cardinality(found.origin[found.node_to_clique[v] + 1])

\* what is left of the first clique of the sorted list that holds v once the
\* leaves of the cliques before it are taken out
LeftOfFirst(v) ==
    LET k == CHOOSE k \in 1..Len(sorted_cliques) :
                 /\ v \in sorted_cliques[k]
                 /\ \A h \in 1..k-1 : v \notin sorted_cliques[h]
    IN  sorted_cliques[k] \ UNION {sorted_cliques[h] : h \in 1..k-1}

\* C9, amended: a leaf receives a column id exactly when it belongs to a maximal
\* clique of at least min_size leaves and the largest such clique that holds it
\* (the first in the sorted list) still has min_size leaves once the leaves of
\* the cliques sorted before it are removed; the id is then the one of that
\* clique, a largest qualifying clique holding the leaf; each leaf receives at
\* most one column id.
C9_LargestFirst ==
    pc = "done" =>
        /\ DOMAIN found.node_to_clique \subseteq Nodes(G)
        /\ \A v \in Nodes(G) :
            /\ v \in DOMAIN found.node_to_clique
                  <=> /\ Qualifying(v) /= {}
                      /\ AtLeastHalf(LeftOfFirst(v), n_items)
            /\ v \in DOMAIN found.node_to_clique =>
                  LET c == found.node_to_clique[v] + 1
                  IN  /\ c \in 1..Len(found.kept)
                      /\ v \in found.kept[c]
                      /\ \A h \in 1..Len(found.kept) : v \in found.kept[h] => h = c
                      /\ found.origin[c] \in Qualifying(v)
                      /\ \A K \in Qualifying(v) :
                            Cardinality(K) <= Cardinality(found.origin[c])

\* a leaf of two qualifying cliques of different sizes that received an id, and
\* a leaf of a qualifying clique that received none
C9_Witness ==
    /\ pc = "done"
    /\ \E v \in DOMAIN found.node_to_clique :
          \E K, J \in Qualifying(v) : Cardinality(K) < Cardinality(J)
    /\ \E v \in Nodes(G) :
          Qualifying(v) /= {} /\ v \notin DOMAIN found.node_to_clique

====
